---------------------------- MODULE Spec2Model ----------------------------
(***************************************************************************)
(* State-machine model of src/app.py (FB2 unzip Telegram bot).             *)
(*                                                                         *)
(* A request is one invocation of handle_document.  Its position in the    *)
(* handler is req[r].pc; every await of the handler ends one action.       *)
(* Strings are sequences of one-character strings, so that the string      *)
(* tests of the code (endswith, in, startswith, normpath, realpath) are    *)
(* computed, not assumed.                                                  *)
(***************************************************************************)
EXTENDS Integers, Sequences, FiniteSets, TLC

(***************************************************************************)
(* Program constants (src/app.py:35-38).                                   *)
(***************************************************************************)
ALLOWED_FILE_SIZE == 33554432
MAX_RETRY_ATTEMPTS == 3
MAX_ZIP_RATIO == 100

(***************************************************************************)
(* Bounds of the model.                                                    *)
(***************************************************************************)
\* longest stem (the part of an entry name before its extension)
MaxStemLen == 2
\* most entries of an archive
MaxEntries == 2
\* the slack the specification allows between declared and actual size
SlackBytes == 1

(***************************************************************************)
(* Strings.                                                                *)
(***************************************************************************)
\* str.lower() on the characters the model uses
LowerChar(c) ==
    CASE c = "F" -> "f"
      [] c = "B" -> "b"
      [] c = "Z" -> "z"
      [] c = "I" -> "i"
      [] c = "P" -> "p"
      [] OTHER -> c

Lower(s) == [i \in 1..Len(s) |-> LowerChar(s[i])]

\* s.startswith(p)
StartsWith(s, p) ==
    /\ Len(p) <= Len(s)
    /\ SubSeq(s, 1, Len(p)) = p

\* s.endswith(p)
EndsWith(s, p) ==
    /\ Len(p) <= Len(s)
    /\ SubSeq(s, Len(s) - Len(p) + 1, Len(s)) = p

\* p in s
Contains(s, p) ==
    \E i \in 1..(Len(s) - Len(p) + 1) : SubSeq(s, i, i + Len(p) - 1) = p

\* s.split(sep) for a one-character separator: the components, empty ones kept
RECURSIVE Split(_, _)
Split(s, sep) ==
    IF \A i \in 1..Len(s) : s[i] # sep
    THEN <<s>>
    ELSE LET k == CHOOSE i \in 1..Len(s) :
                      /\ s[i] = sep
                      /\ \A j \in 1..(i - 1) : s[j] # sep
         IN  <<SubSeq(s, 1, k - 1)>> \o Split(SubSeq(s, k + 1, Len(s)), sep)

\* sep.join(comps)
RECURSIVE Join(_, _)
Join(comps, sep) ==
    IF Len(comps) = 0 THEN <<>>
    ELSE IF Len(comps) = 1 THEN comps[1]
    ELSE comps[1] \o sep \o Join(Tail(comps), sep)

DOT == <<".">>
DOTDOT == <<".", ".">>
SLASH == <<"/">>
BACKSLASH == <<"\\">>

\* posixpath.basename: what follows the last '/'
BaseName(s) ==
    LET comps == Split(s, "/")
    IN  comps[Len(comps)]

\* the component loop of posixpath.normpath
RECURSIVE NormComps(_, _, _)
NormComps(comps, acc, rooted) ==
    IF Len(comps) = 0 THEN acc
    ELSE LET c == Head(comps)
             rest == Tail(comps)
         IN  IF c = <<>> \/ c = DOT
             THEN NormComps(rest, acc, rooted)
             ELSE IF \/ c # DOTDOT
                     \/ (~rooted /\ Len(acc) = 0)
                     \/ (Len(acc) > 0 /\ acc[Len(acc)] = DOTDOT)
             THEN NormComps(rest, Append(acc, c), rooted)
             ELSE IF Len(acc) > 0
             THEN NormComps(rest, SubSeq(acc, 1, Len(acc) - 1), rooted)
             ELSE NormComps(rest, acc, rooted)

\* posixpath.normpath
NormPath(s) ==
    IF Len(s) = 0 THEN DOT
    ELSE LET rooted == StartsWith(s, SLASH)
             \* POSIX keeps exactly two leading slashes
             lead == IF StartsWith(s, <<"/", "/">>) /\ ~StartsWith(s, <<"/", "/", "/">>)
                     THEN <<"/", "/">>
                     ELSE IF rooted THEN SLASH ELSE <<>>
             body == Join(NormComps(Split(s, "/"), <<>>, rooted), SLASH)
             path == lead \o body
         IN  IF Len(path) = 0 THEN DOT ELSE path


(***************************************************************************)
(* Paths and the file system.  A path is a string; symbolic links are a    *)
(* set of records [from, to] of absolute paths, `to` already canonical.    *)
(***************************************************************************)
\* os.path.join(path, name)
JoinPath(path, name) ==
    IF StartsWith(name, SLASH) THEN name
    ELSE IF EndsWith(path, SLASH) THEN path \o name
    ELSE path \o SLASH \o name

PathStr(comps) == SLASH \o Join(comps, SLASH)

\* the walk of os.path.realpath over the components of an absolute path
RECURSIVE ResolveComps(_, _, _)
ResolveComps(comps, acc, links) ==
    IF Len(comps) = 0 THEN acc
    ELSE LET c == Head(comps)
             rest == Tail(comps)
         IN  IF c = <<>> \/ c = DOT
             THEN ResolveComps(rest, acc, links)
             ELSE IF c = DOTDOT
             THEN ResolveComps(rest, SubSeq(acc, 1, Len(acc) - 1), links)
             ELSE LET next == Append(acc, c)
                      hit == {l \in links : l.from = PathStr(next)}
                  IN  IF hit = {}
                      THEN ResolveComps(rest, next, links)
                      ELSE LET l == CHOOSE x \in hit : TRUE
                           IN  ResolveComps(rest, Tail(Split(l.to, "/")), links)

\* os.path.realpath of an absolute path
RealPath(s, links) == PathStr(ResolveComps(Split(s, "/"), <<>>, links))

\* a is b or lies under the directory b (both canonical)
IsUnder(a, b) ==
    \/ a = b
    \/ StartsWith(a, IF EndsWith(b, SLASH) THEN b ELSE b \o SLASH)

\* tempfile.gettempdir(), and where it points when it is a symbolic link
TempDir == <<"/", "t">>
TempDirTarget == <<"/", "p">>
\* the current working directory of the bot
WorkDir == <<"/", "w">>

Digits == <<"1", "2", "3", "4">>

\* tempfile.mkstemp(prefix="tg_unzip_"): the n-th temporary name made
MkstempPath(n) == TempDir \o <<"/", "u", Digits[n]>>

\* a slip: one extraction directory of a fixed name for every request
MkdtempPathBug(n) == TempDir \o <<"/", "e">>

\* tempfile.mkdtemp(prefix="tg_extract_")
MkdtempPath(n) == TempDir \o <<"/", "e", Digits[n]>>

(***************************************************************************)
(* Archives: what zipfile.ZipFile(...).infolist() gives.                   *)
(***************************************************************************)
StemChars == {"a", ".", "/", "\\"}

Stems == UNION {[1..n -> StemChars] : n \in 0..MaxStemLen}

Suffixes ==
    { <<>>,
      <<".", "f", "b", "2">>,
      <<".", "F", "B", "2">>,
      <<".", "t", "x", "t">> }

\* entry names: a stem followed by an extension
Names == {s \o x : s \in Stems, x \in Suffixes}

\* declared uncompressed sizes (ZipInfo.file_size)
FileSizes == {0, 100, 101, 201, ALLOWED_FILE_SIZE, ALLOWED_FILE_SIZE + 1}

\* declared compressed sizes (ZipInfo.compress_size)
CompressSizes == {0, 1, 2, 335545}

ZipInfos == [filename : Names, file_size : FileSizes, compress_size : CompressSizes]

\* the entries that follow the first one in an archive of several
OtherInfos ==
    { [filename |-> <<"a", ".", "f", "b", "2">>, file_size |-> 100, compress_size |-> 1] }

\* an archive: whether ZipFile() can read its directory, and its entries
Archives ==
    {[ok |-> FALSE, infolist |-> <<>>]}
    \cup {[ok |-> TRUE, infolist |-> <<>>]}
    \cup {[ok |-> TRUE, infolist |-> <<e>> \o rest] :
              e \in ZipInfos,
              rest \in UNION {[1..n -> OtherInfos] : n \in 0..(MaxEntries - 1)}}

(***************************************************************************)
(* The checks of process_archive, in the words of the code.                *)
(***************************************************************************)
FB2 == <<".", "f", "b", "2">>
ZIP == <<".", "z", "i", "p">>

MSG_COUNT == "The archive must contain exactly one .fb2 file. Processing stopped."
MSG_EXT == "The file in the archive must have .fb2 extension. Other formats are not supported."
MSG_SEP == "The archive must contain a single file at the root level (no folders)."
MSG_PATH == "The archive must contain a single file at the root (no folders)."
MSG_RATIO == "Suspicious compression ratio. Processing stopped for security reasons."
MSG_SIZE == "Unpacked file size exceeds the allowed limit."
MSG_SLIP == "Potential Zip Slip attack detected."
MSG_BADZIP == "The file is not a valid zip archive."

\* a slip: only the empty archive is refused
WrongEntryCountBug(actual_files) == Len(actual_files) < 1

\* len(actual_files) != 1
WrongEntryCount(actual_files) == Len(actual_files) # 1

\* not actual_files[0].filename.lower().endswith('.fb2')
WrongFileType(actual_files) == ~EndsWith(Lower(actual_files[1].filename), FB2)

\* a slip: the backslash is not looked for
HasSeparatorBug(actual_files) == Contains(actual_files[1].filename, SLASH)

\* '/' in inner_path or '\\' in inner_path
HasSeparator(actual_files) ==
    LET inner_path == actual_files[1].filename
    IN  Contains(inner_path, SLASH) \/ Contains(inner_path, BACKSLASH)

\* startswith('/') or '..' in inner_path or normpath(inner_path) != basename(inner_path)
UnsafePath(actual_files) ==
    LET inner_path == actual_files[1].filename
    IN  \/ StartsWith(inner_path, SLASH)
        \/ Contains(inner_path, DOTDOT)
        \/ NormPath(inner_path) # BaseName(inner_path)

\* a slip: floor division (//) in place of the true division
SuspiciousRatioBug(actual_files) ==
    /\ actual_files[1].compress_size > 0
    /\ actual_files[1].file_size \div actual_files[1].compress_size > MAX_ZIP_RATIO

\* compress_size > 0 and file_size / compress_size > MAX_ZIP_RATIO.  The
\* quotient is a true division; for b > 0, a / b > r exactly when a > r * b.
SuspiciousRatio(actual_files) ==
    LET file_item == actual_files[1]
    IN  /\ file_item.compress_size > 0
        /\ file_item.file_size > MAX_ZIP_RATIO * file_item.compress_size

\* file_item.file_size > ALLOWED_FILE_SIZE
TooLarge(actual_files) == actual_files[1].file_size > ALLOWED_FILE_SIZE

\* a slip: the size check placed before the ratio check
CheckOrderBug == <<"count", "extension", "separator", "path", "size", "ratio">>

\* the order in which process_archive makes its checks
CheckOrder == <<"count", "extension", "separator", "path", "ratio", "size">>

Violates(check, actual_files) ==
    CASE check = "count" -> WrongEntryCount(actual_files)
      [] check = "extension" -> WrongFileType(actual_files)
      [] check = "separator" -> HasSeparator(actual_files)
      [] check = "path" -> UnsafePath(actual_files)
      [] check = "ratio" -> SuspiciousRatio(actual_files)
      [] check = "size" -> TooLarge(actual_files)

\* the text of the SecurityError each check raises
MessageOf(check) ==
    CASE check = "count" -> MSG_COUNT
      [] check = "extension" -> MSG_EXT
      [] check = "separator" -> MSG_SEP
      [] check = "path" -> MSG_PATH
      [] check = "ratio" -> MSG_RATIO
      [] check = "size" -> MSG_SIZE

\* the checks from the i-th on: the first violated one raises and ends them.
\* error is the SecurityError raised ("" when none), checks is how many ran.
RECURSIVE RunChecks(_, _)
RunChecks(actual_files, i) ==
    IF i > Len(CheckOrder)
    THEN [error |-> "", checks |-> i - 1]
    ELSE IF Violates(CheckOrder[i], actual_files)
    THEN [error |-> MessageOf(CheckOrder[i]), checks |-> i]
    ELSE RunChecks(actual_files, i + 1)

\* the validation of process_archive on an archive whose directory was read
ValidateArchive(actual_files) == RunChecks(actual_files, 1)

(***************************************************************************)
(* safe_extract.                                                           *)
(***************************************************************************)
\* not member_path.startswith(os.path.realpath(path))
EscapesRoot(path, member, links) ==
    LET member_path == RealPath(JoinPath(path, member.filename), links)
    IN  ~StartsWith(member_path, RealPath(path, links))

\* the loop of safe_extract: some member fails the prefix test
ZipSlipDetected(infolist, path, links) ==
    \E i \in 1..Len(infolist) : EscapesRoot(path, infolist[i], links)

ArcComponent(c) == c \notin {<<>>, DOT, DOTDOT}

\* where ZipFile.extractall(path) writes a member: the name without its
\* empty, '.' and '..' components, joined to path, normalised, links followed
ExtractTarget(path, name, links) ==
    LET arcname == Join(SelectSeq(Split(name, "/"), ArcComponent), SLASH)
    IN  RealPath(NormPath(JoinPath(path, arcname)), links)

\* the files zip_file.extractall(path) creates
ExtractAll(infolist, path, links) ==
    {ExtractTarget(path, infolist[i].filename, links) : i \in 1..Len(infolist)}


(***************************************************************************)
(* extract_fb2_metadata.                                                   *)
(*                                                                         *)
(* A payload is the extracted file as extract_fb2_metadata sees it:        *)
(* whether the file can be read, its size, what etree.parse makes of it    *)
(* ("error": it raises; "noroot": a tree without a root element, on which  *)
(* find raises; "tree": a document), and for a document its elements in    *)
(* document order.  An element has a tag; a book-title has a text, an      *)
(* author the texts findtext gives for its first-name and last-name.       *)
(* <<>> is Python's None (and the empty string, which the code treats      *)
(* alike).                                                                 *)
(***************************************************************************)
TITLE_LIMIT == 255

\* the longest document, in elements
MaxElements == 2

NoMetadata == [title |-> <<>>, author |-> <<>>]

\* a text of n characters
Chars(n) == [i \in 1..n |-> IF i % 2 = 1 THEN "x" ELSE "y"]

Texts(c) == {<<>>, <<c>>}

TitleTexts == Texts("T") \cup {Chars(TITLE_LIMIT), Chars(TITLE_LIMIT + 1)}

TitleElements ==
    [tag : {"book-title"}, text : TitleTexts, first : {<<>>}, last : {<<>>}]

AuthorElements ==
    [tag : {"author"}, text : {<<>>}, first : Texts("F"), last : Texts("L")]

\* an element that is neither
OtherElement == [tag |-> "body", text |-> <<"T">>, first |-> <<>>, last |-> <<>>]

Elements == TitleElements \cup AuthorElements \cup {OtherElement}

\* what find returns when nothing matches (None)
NoElement == [tag |-> "", text |-> <<>>, first |-> <<>>, last |-> <<>>]

\* a slip: the last match, not the first
RECURSIVE FindBug(_, _)
FindBug(tree, tag) ==
    IF tree = <<>> THEN NoElement
    ELSE IF tree[Len(tree)].tag = tag THEN tree[Len(tree)]
    ELSE FindBug(SubSeq(tree, 1, Len(tree) - 1), tag)

\* tree.find('.//fb:<tag>'): the first match in document order
RECURSIVE Find(_, _)
Find(tree, tag) ==
    IF tree = <<>> THEN NoElement
    ELSE IF Head(tree).tag = tag THEN Head(tree)
    ELSE Find(Tail(tree), tag)

\* title_elem.text[:255]
TruncateTitle(text) == SubSeq(text, 1, IF Len(text) < TITLE_LIMIT THEN Len(text) ELSE TITLE_LIMIT)

\* the author of lines 283-290
ComposeAuthor(author_elem) ==
    LET first_name == author_elem.first
        last_name == author_elem.last
    IN  IF first_name # <<>> /\ last_name # <<>> THEN first_name \o <<" ">> \o last_name
        ELSE IF last_name # <<>> THEN last_name
        ELSE IF first_name # <<>> THEN first_name
        ELSE <<>>

\* lines 273-290: the metadata of a parsed document
TreeMetadata(tree) ==
    LET title_elem == Find(tree, "book-title")
        author_elem == Find(tree, "author")
    IN  [title |-> IF title_elem # NoElement /\ title_elem.text # <<>>
                   THEN TruncateTitle(title_elem.text)
                   ELSE <<>>,
         author |-> IF author_elem # NoElement
                    THEN ComposeAuthor(author_elem)
                    ELSE <<>>]

\* a slip: only the parser's error is caught
CaughtByMetadataBug(exc) == exc = "XMLSyntaxError"

\* the exception classes `except Exception` (line 291) catches
CaughtByMetadata(exc) == exc \in {"OSError", "XMLSyntaxError", "AssertionError"}

\* the body of the try of extract_fb2_metadata: the exception it raises
\* ("" when none) and the metadata dictionary at that point
MetadataBody(p) ==
    IF ~p.readable
    THEN [exc |-> "OSError", metadata |-> NoMetadata]
    ELSE IF p.size > ALLOWED_FILE_SIZE
    THEN [exc |-> "", metadata |-> NoMetadata]
    ELSE IF p.parse = "error"
    THEN [exc |-> "XMLSyntaxError", metadata |-> NoMetadata]
    ELSE IF p.parse = "noroot"
    THEN [exc |-> "AssertionError", metadata |-> NoMetadata]
    ELSE [exc |-> "", metadata |-> TreeMetadata(p.tree)]

\* extract_fb2_metadata: raised is the exception that leaves it ("" when none)
ExtractFb2Metadata(p) ==
    LET body == MetadataBody(p)
    IN  IF body.exc # "" /\ ~CaughtByMetadata(body.exc)
        THEN [raised |-> body.exc, metadata |-> body.metadata]
        ELSE [raised |-> "", metadata |-> body.metadata]

\* the documents of at most n elements
TreesUpTo(n) == UNION {[1..k -> Elements] : k \in 0..n}

\* the documents a payload may parse to
Trees == [parse : {"tree"}, tree : TreesUpTo(MaxElements)]

NoTree(parse) == [parse |-> parse, tree |-> <<>>]

Parses == Trees \cup {NoTree("error"), NoTree("noroot")}

\* every payload extract_fb2_metadata may be given
Payloads ==
    { [readable |-> rd, size |-> sz, parse |-> t.parse, tree |-> t.tree] :
          rd \in BOOLEAN, sz \in FileSizes, t \in Parses }

\* the payloads the pipeline is run on: those of a file of the given size
\* that holds at most one element
PayloadsOf(readable, size) ==
    {p \in Payloads : p.readable = readable /\ p.size = size /\ Len(p.tree) <= 1}

NoPayload == [readable |-> FALSE, size |-> 0, parse |-> "error", tree |-> <<>>]

(***************************************************************************)
(* The messages of handle_document and process_archive.                    *)
(***************************************************************************)
MSG_TOO_BIG == "The file exceeds the maximum allowed size of 32 MB."
MSG_NOT_ZIP == "Please send a file with .zip extension"
MSG_PROCESSING == "Processing your file..."
MSG_RETRIEVE == "Failed to retrieve file. Please try again."
MSG_DOWNLOADED == "File downloaded, extracting contents..."
MSG_DOWNLOAD == "Failed to download file. Please try later."
MSG_ARCHIVE == "An error occurred while processing the archive. Please try again."
MSG_UNEXPECTED == "An unexpected error occurred. Please try again."
MSG_CHECKING == "Checking for FB2 file..."
MSG_SUCCESS == "File successfully processed!"
MSG_FB2 == "Failed to process FB2 file. The file may be corrupted."
MSG_HANDLER == "Sorry, an error occurred while processing your request."
MSG_NETWORK == "A network error occurred. Please try again later."
MSG_TEXT == "Please send me a zip archive containing an .fb2 file for extraction."


(***************************************************************************)
(* State.                                                                  *)
(*   req          per request (one call of handle_document): its position  *)
(*                pc and its local variables                               *)
(*   files        the canonical paths that exist under the temp directory  *)
(*   symlinks     the symbolic links of the file system                    *)
(*   tmp_seq      how many temporary names tempfile has made               *)
(*   retry_count  context.user_data["retry_count"] (0 when absent)         *)
(*   jobs         the retries scheduled on context.job_queue               *)
(*   failures     history: the send_reply calls that failed since the      *)
(*                last retry_send_message that succeeded                   *)
(***************************************************************************)
VARIABLES req, files, symlinks, tmp_seq, retry_count, jobs, failures

vars == <<req, files, symlinks, tmp_seq, retry_count, jobs, failures>>

AllRequests == {"r1", "r2"}

\* the requests of the sequential specification
Requests == {"r1"}

\* update.message.document: file_size and file_name (<<>> is None)
Documents ==
    [file_size : {ALLOWED_FILE_SIZE, ALLOWED_FILE_SIZE + 1},
     file_name : { <<>>,
                   <<"b", ".", "z", "i", "p">>,
                   <<"b", ".", "Z", "I", "P">>,
                   <<"b", ".", "f", "b", "2">> }]

UNKNOWN == <<"u", "n", "k", "n", "o", "w", "n">>

NoArchive == [ok |-> FALSE, infolist |-> <<>>]

NoError == [type |-> "", msg |-> ""]

InitRequest ==
    [pc |-> "idle",
     document |-> [file_size |-> 0, file_name |-> <<>>],
     status |-> "",              \* the text the status message shows
     reply |-> "",               \* the last text reply delivered
     attempt |-> 0,              \* get_file_path: the loop variable
     slept |-> <<>>,             \* get_file_path: the sleeps made so far
     requests |-> <<>>,          \* get_file_path: the outcomes of its requests
     file_url |-> FALSE,         \* get_file_path returned a URL
     tmp_path |-> <<>>,
     extract_dir |-> <<>>,
     archive |-> NoArchive,      \* what ZipFile read from tmp_path
     error |-> NoError,          \* the exception process_archive met
     checks |-> 0,               \* how many checks of the validation ran
     validated |-> FALSE,        \* the validation passed
     extract_called |-> FALSE,   \* safe_extract was called
     actual |-> 0,               \* the bytes the entry really inflates to
     written |-> {},             \* the files extractall created
     written_size |-> 0,         \* the bytes extractall wrote
     payload |-> NoPayload,      \* the file extract_fb2_metadata was given
     metadata |-> NoMetadata,
     meta_done |-> FALSE,        \* extract_fb2_metadata returned
     meta_raised |-> "",         \* the exception that left extract_fb2_metadata
     sent |-> 0,                 \* documents delivered by reply_document
     completed |-> FALSE,        \* the success status was shown
     escaped |-> FALSE]          \* an exception left handle_document

Init ==
    /\ req = [r \in AllRequests |-> InitRequest]
    /\ files = {}
    /\ symlinks \in {{}, {[from |-> TempDir, to |-> TempDirTarget]}}
    /\ tmp_seq = 0
    /\ retry_count = 0
    /\ jobs = <<>>
    /\ failures = 0

Set(r, rec) == req' = [req EXCEPT ![r] = rec]

\* status_message.edit_text(text): the text shown afterwards
EditText(ok, text, old) == IF ok THEN text ELSE old

(***************************************************************************)
(* send_reply and retry_send_message.                                      *)
(***************************************************************************)
Min(a, b) == IF a < b THEN a ELSE b

\* retry_after = min(30, context.user_data.get("retry_count", 0) * 5 + 1)
RetryAfter(count) == Min(30, count * 5 + 1)

\* send_reply(update, context, text); ok: reply_text did not raise
SendReply(r, text, ok) ==
    IF ok
    THEN UNCHANGED <<retry_count, jobs, failures>>
    ELSE /\ retry_count' = retry_count + 1
         /\ jobs' = Append(jobs, [chat |-> r, text |-> text,
                                  delay |-> RetryAfter(retry_count)])
         /\ failures' = failures + 1

\* a scheduled retry_send_message(chat_id, text, ctx) runs.  ok: send_message
\* did not raise.  has_user_data: ctx.user_data is the user's dictionary; in a
\* job's context it is None unless the job was scheduled with a user_id, and
\* then the membership test raises and the handler's except swallows it.
RetrySendMessage(i) ==
    /\ i \in 1..Len(jobs)
    /\ \E ok \in BOOLEAN, has_user_data \in BOOLEAN :
          /\ retry_count' = IF ok /\ has_user_data THEN 0 ELSE retry_count
          /\ failures' = IF ok THEN 0 ELSE failures
          /\ req' = [req EXCEPT ![jobs[i].chat].reply =
                        IF ok THEN jobs[i].text ELSE @]
    /\ jobs' = SubSeq(jobs, 1, i - 1) \o SubSeq(jobs, i + 1, Len(jobs))
    /\ UNCHANGED <<files, symlinks, tmp_seq>>

(***************************************************************************)
(* handle_document, lines 95-117: the gates and the status message.        *)
(***************************************************************************)
\* a slip: a file of exactly the allowed size is refused too
TooBigBug(document) == document.file_size >= ALLOWED_FILE_SIZE

\* file_size > ALLOWED_FILE_SIZE
TooBig(document) == document.file_size > ALLOWED_FILE_SIZE

\* not (document.file_name or "unknown").lower().endswith('.zip')
NotZip(document) ==
    LET file_name == IF document.file_name = <<>> THEN UNKNOWN ELSE document.file_name
    IN  ~EndsWith(Lower(file_name), ZIP)

HandleDocument(r) ==
    /\ req[r].pc = "idle"
    /\ \E document \in Documents, ok \in BOOLEAN :
          LET rec == [req[r] EXCEPT !.document = document]
          IN  IF TooBig(document)
              THEN /\ SendReply(r, MSG_TOO_BIG, ok)
                   /\ Set(r, [rec EXCEPT !.pc = "done",
                                         !.reply = IF ok THEN MSG_TOO_BIG ELSE @])
              ELSE IF NotZip(document)
              THEN /\ SendReply(r, MSG_NOT_ZIP, ok)
                   /\ Set(r, [rec EXCEPT !.pc = "done",
                                         !.reply = IF ok THEN MSG_NOT_ZIP ELSE @])
              ELSE \* status_message = await update.message.reply_text(...), outside
                   \* the try: a failure leaves the handler
                   /\ UNCHANGED <<retry_count, jobs, failures>>
                   /\ Set(r, IF ok
                             THEN [rec EXCEPT !.pc = "get_file_path",
                                              !.status = MSG_PROCESSING]
                             ELSE [rec EXCEPT !.pc = "error_handler", !.escaped = TRUE])
    /\ UNCHANGED <<files, symlinks, tmp_seq>>

(***************************************************************************)
(* get_file_path, lines 44-68: one attempt of the loop.                    *)
(*   "url"        the API answered ok with a file path                     *)
(*   "not_ok"     the API answered ok = false                              *)
(*   "transport"  requests.RequestException or asyncio.TimeoutError        *)
(*   "other"      any other exception (a body that is no JSON, ...)        *)
(***************************************************************************)
\* a slip: 2 * n for 2 ** n
Pow2Bug(n) == 2 * n

\* 2 ** n
RECURSIVE Pow2(_)
Pow2(n) == IF n = 0 THEN 1 ELSE 2 * Pow2(n - 1)

GetFilePath(r) ==
    /\ req[r].pc = "get_file_path"
    /\ req[r].attempt < MAX_RETRY_ATTEMPTS
    /\ \E outcome \in {"url", "not_ok", "transport", "other"} :
          LET rec == [req[r] EXCEPT !.requests = Append(@, outcome)]
          IN  Set(r, CASE outcome = "url" ->
                            [rec EXCEPT !.pc = "file_url", !.file_url = TRUE]
                       [] outcome = "not_ok" ->
                            [rec EXCEPT !.pc = "file_url", !.file_url = FALSE]
                       [] outcome = "transport" ->
                            IF rec.attempt = MAX_RETRY_ATTEMPTS - 1
                            THEN [rec EXCEPT !.pc = "file_url", !.file_url = FALSE]
                            ELSE [rec EXCEPT !.attempt = @ + 1,
                                             !.slept = Append(@, Pow2(rec.attempt))]
                       [] outcome = "other" ->
                            [rec EXCEPT !.pc = "unexpected"])
    /\ UNCHANGED <<files, symlinks, tmp_seq, retry_count, jobs, failures>>


(***************************************************************************)
(* handle_document, lines 122-151: the download.                           *)
(*   "ok"       the archive was written to tmp_path                        *)
(*   "request"  requests.RequestException or asyncio.TimeoutError          *)
(*   "other"    any other exception (the write to tmp_path fails, ...)     *)
(* ok is whether the edit_text that follows succeeds; its failure is a     *)
(* telegram NetworkError, which the inner except does not name.            *)
(***************************************************************************)
Download(r) ==
    /\ req[r].pc = "file_url"
    /\ \E outcome \in {"ok", "request", "other"}, ok \in BOOLEAN :
          LET local == [req[r] EXCEPT !.attempt = 0, !.slept = <<>>, !.requests = <<>>]
              tmp_path == MkstempPath(tmp_seq + 1)
              made == [local EXCEPT !.tmp_path = tmp_path]
              real == RealPath(tmp_path, symlinks)
          IN  IF ~req[r].file_url
              THEN \* line 123, then return; or the outer except
                   /\ Set(r, [local EXCEPT
                                !.pc = IF ok THEN "done" ELSE "unexpected",
                                !.status = EditText(ok, MSG_RETRIEVE, @)])
                   /\ UNCHANGED <<files, tmp_seq>>
              ELSE /\ tmp_seq' = tmp_seq + 1
                   /\ CASE outcome = "ok" ->
                             /\ files' = files \cup {real}
                             /\ Set(r, [made EXCEPT
                                          !.pc = IF ok THEN "process" ELSE "unexpected",
                                          !.status = EditText(ok, MSG_DOWNLOADED, @)])
                        [] outcome = "request" ->
                             \* lines 148-151: the removal follows the edit_text
                             /\ files' = IF ok THEN files \ {real} ELSE files \cup {real}
                             /\ Set(r, [made EXCEPT
                                          !.pc = IF ok THEN "done" ELSE "unexpected",
                                          !.status = EditText(ok, MSG_DOWNLOAD, @)])
                        [] outcome = "other" ->
                             /\ files' = files \cup {real}
                             /\ Set(r, [made EXCEPT !.pc = "unexpected"])
    /\ UNCHANGED <<symlinks, retry_count, jobs, failures>>

(***************************************************************************)
(* The finally of handle_document, lines 163-168.                          *)
(***************************************************************************)
Finally(rec, fs, links) ==
    LET kept == IF rec.tmp_path # <<>>
                THEN fs \ {RealPath(rec.tmp_path, links)}
                ELSE fs
    IN  IF rec.extract_dir # <<>>
        THEN {f \in kept : ~IsUnder(f, RealPath(rec.extract_dir, links))}
        ELSE kept

(***************************************************************************)
(* process_archive, lines 177-212: ZipFile reads the archive (the bytes    *)
(* the download left in tmp_path) and the checks run.                      *)
(***************************************************************************)
ValidateOn(r, archives) ==
    /\ req[r].pc = "process"
    /\ \E archive \in archives :
          LET extract_dir == MkdtempPath(tmp_seq + 1)
              rec == [req[r] EXCEPT !.extract_dir = extract_dir, !.archive = archive]
              result == ValidateArchive(archive.infolist)
          IN  /\ tmp_seq' = tmp_seq + 1
              /\ files' = files \cup {RealPath(extract_dir, symlinks)}
              /\ Set(r, IF ~archive.ok
                        THEN [rec EXCEPT !.pc = "bad_zip",
                                         !.error = [type |-> "BadZipFile", msg |-> ""]]
                        ELSE IF result.error # ""
                        THEN [rec EXCEPT !.pc = "security_error",
                                         !.checks = result.checks,
                                         !.error = [type |-> "SecurityError",
                                                    msg |-> result.error]]
                        ELSE [rec EXCEPT !.pc = "extract",
                                         !.checks = result.checks,
                                         !.validated = TRUE])
    /\ UNCHANGED <<symlinks, retry_count, jobs, failures>>

\* the archive is any of Archives
Validate(r) == ValidateOn(r, Archives)

(***************************************************************************)
(* safe_extract, lines 246-251, called at line 215.                        *)
(*   actual: the bytes the entry really inflates to.  ZipFile stops        *)
(*   reading an entry at its declared file_size and checks the CRC-32 of   *)
(*   what it read, so extractall                                           *)
(*     "ok"       writes min(actual, declared) bytes,                      *)
(*     "bad_zip"  raises BadZipFile (bad CRC-32, corrupt data),            *)
(*     "os"       raises OSError (the disk is full, ...).                  *)
(***************************************************************************)
ActualSizes(declared) == {declared, declared + SlackBytes + 1}

\* a slip: extractall() without its path extracts to the working directory
ExtractRootBug(path) == WorkDir

\* where line 251 extracts to
ExtractRoot(path) == path

SafeExtract(r) ==
    /\ req[r].pc = "extract"
    /\ LET rec == [req[r] EXCEPT !.extract_called = TRUE]
           infolist == req[r].archive.infolist
           path == req[r].extract_dir
       IN  IF ZipSlipDetected(infolist, path, symlinks)
           THEN /\ Set(r, [rec EXCEPT !.pc = "security_error",
                                      !.error = [type |-> "SecurityError",
                                                 msg |-> MSG_SLIP]])
                /\ UNCHANGED files
           ELSE \E actual \in ActualSizes(infolist[1].file_size),
                   outcome \in {"ok", "bad_zip", "os"} :
                   LET written == ExtractAll(infolist, ExtractRoot(path), symlinks)
                       size == Min(actual, infolist[1].file_size)
                       out == [rec EXCEPT !.actual = actual, !.written = written,
                                          !.written_size = size]
                   IN  /\ files' = files \cup written
                       /\ Set(r, CASE outcome = "ok" ->
                                        [out EXCEPT !.pc = "checking"]
                                   [] outcome = "bad_zip" ->
                                        [out EXCEPT !.pc = "bad_zip",
                                                    !.error = [type |-> "BadZipFile",
                                                               msg |-> ""]]
                                   [] outcome = "os" ->
                                        [out EXCEPT !.pc = "archive_error",
                                                    !.error = [type |-> "OSError",
                                                               msg |-> ""]])
    /\ UNCHANGED <<symlinks, tmp_seq, retry_count, jobs, failures>>


(***************************************************************************)
(* process_archive, lines 217-244, and the handlers of handle_document,    *)
(* lines 158-171.  In each action ok is whether the Telegram call of the   *)
(* step succeeds; a failing call raises telegram.error.NetworkError.       *)
(* A step that ends the inner try of handle_document runs its finally.     *)
(***************************************************************************)
\* fb2_path = os.path.join(extract_path, actual_files[0].filename)
Fb2Path(rec) == JoinPath(rec.extract_dir, rec.archive.infolist[1].filename)

Fb2Exists(rec) == RealPath(Fb2Path(rec), symlinks) \in files

\* the step returns or raises out of the inner try: the finally runs, and
\* the handler ends (to = "done") or the outer except takes over
Leave(r, rec, to) ==
    /\ files' = Finally(rec, files, symlinks)
    /\ Set(r, [rec EXCEPT !.pc = to])

\* a slip: the return of line 219 left out, line 222 comes next
AfterBadZipBug == "checking"

\* line 219: return
AfterBadZip == "done"

\* lines 217-219: except BadZipFile
BadZip(r) ==
    /\ req[r].pc = "bad_zip"
    /\ \E ok \in BOOLEAN :
          IF ok
          THEN Leave(r, [req[r] EXCEPT !.status = MSG_BADZIP], AfterBadZip)
          ELSE /\ Set(r, [req[r] EXCEPT !.pc = "archive_error"])
               /\ UNCHANGED files
    /\ UNCHANGED <<symlinks, tmp_seq, retry_count, jobs, failures>>

\* line 222
Checking(r) ==
    /\ req[r].pc = "checking"
    /\ \E ok \in BOOLEAN :
          Set(r, [req[r] EXCEPT !.pc = IF ok THEN "metadata" ELSE "archive_error",
                                !.status = EditText(ok, MSG_CHECKING, @)])
    /\ UNCHANGED <<files, symlinks, tmp_seq, retry_count, jobs, failures>>

\* line 229: the file at fb2_path is read
Metadata(r) ==
    /\ req[r].pc = "metadata"
    /\ \E p \in PayloadsOf(Fb2Exists(req[r]), req[r].written_size) :
          LET result == ExtractFb2Metadata(p)
              rec == [req[r] EXCEPT !.payload = p]
          IN  Set(r, IF result.raised # ""
                     THEN [rec EXCEPT !.pc = "fb2_error",
                                      !.meta_raised = result.raised]
                     ELSE [rec EXCEPT !.pc = "send",
                                      !.meta_done = TRUE,
                                      !.metadata = result.metadata])
    /\ UNCHANGED <<files, symlinks, tmp_seq, retry_count, jobs, failures>>

\* lines 232-239: open(fb2_path) and reply_document
Send(r) ==
    /\ req[r].pc = "send"
    /\ \E ok \in BOOLEAN :
          Set(r, IF Fb2Exists(req[r]) /\ ok
                 THEN [req[r] EXCEPT !.pc = "success", !.sent = @ + 1]
                 ELSE [req[r] EXCEPT !.pc = "fb2_error"])
    /\ UNCHANGED <<files, symlinks, tmp_seq, retry_count, jobs, failures>>

\* line 241
Success(r) ==
    /\ req[r].pc = "success"
    /\ \E ok \in BOOLEAN :
          IF ok
          THEN Leave(r, [req[r] EXCEPT !.status = MSG_SUCCESS, !.completed = TRUE],
                     "done")
          ELSE /\ Set(r, [req[r] EXCEPT !.pc = "fb2_error"])
               /\ UNCHANGED files
    /\ UNCHANGED <<symlinks, tmp_seq, retry_count, jobs, failures>>

\* lines 242-244: except Exception of process_archive
Fb2Error(r) ==
    /\ req[r].pc = "fb2_error"
    /\ \E ok \in BOOLEAN :
          IF ok
          THEN Leave(r, [req[r] EXCEPT !.status = MSG_FB2], "done")
          ELSE /\ Set(r, [req[r] EXCEPT !.pc = "archive_error"])
               /\ UNCHANGED files
    /\ UNCHANGED <<symlinks, tmp_seq, retry_count, jobs, failures>>

\* lines 158-159: except SecurityError
SecurityErrorHandler(r) ==
    /\ req[r].pc = "security_error"
    /\ \E ok \in BOOLEAN :
          Leave(r, [req[r] EXCEPT !.status = EditText(ok, req[r].error.msg, @)],
                IF ok THEN "done" ELSE "unexpected")
    /\ UNCHANGED <<symlinks, tmp_seq, retry_count, jobs, failures>>

\* lines 160-162: except Exception of the inner try
ArchiveError(r) ==
    /\ req[r].pc = "archive_error"
    /\ \E ok \in BOOLEAN :
          Leave(r, [req[r] EXCEPT !.status = EditText(ok, MSG_ARCHIVE, @)],
                IF ok THEN "done" ELSE "unexpected")
    /\ UNCHANGED <<symlinks, tmp_seq, retry_count, jobs, failures>>

\* lines 169-171: except Exception of the outer try
Unexpected(r) ==
    /\ req[r].pc = "unexpected"
    /\ \E ok \in BOOLEAN :
          Set(r, IF ok
                 THEN [req[r] EXCEPT !.pc = "done", !.status = MSG_UNEXPECTED]
                 ELSE [req[r] EXCEPT !.pc = "error_handler", !.escaped = TRUE])
    /\ UNCHANGED <<files, symlinks, tmp_seq, retry_count, jobs, failures>>

\* error_handler, lines 335-348, for the NetworkError that left the handler
ErrorHandler(r) ==
    /\ req[r].pc = "error_handler"
    /\ \E ok \in BOOLEAN :
          Set(r, [req[r] EXCEPT !.pc = "done",
                                !.reply = IF ok THEN MSG_NETWORK ELSE @])
    /\ UNCHANGED <<files, symlinks, tmp_seq, retry_count, jobs, failures>>

(***************************************************************************)
(* The specification: one request at a time.                               *)
(***************************************************************************)
Step(r) ==
    \/ HandleDocument(r)
    \/ GetFilePath(r)
    \/ Download(r)
    \/ Validate(r)
    \/ SafeExtract(r)
    \/ BadZip(r)
    \/ Checking(r)
    \/ Metadata(r)
    \/ Send(r)
    \/ Success(r)
    \/ Fb2Error(r)
    \/ SecurityErrorHandler(r)
    \/ ArchiveError(r)
    \/ Unexpected(r)
    \/ ErrorHandler(r)

Next ==
    \/ \E r \in Requests : Step(r)
    \/ \E i \in 1..Len(jobs) : RetrySendMessage(i)

Spec == Init /\ [][Next]_vars

(***************************************************************************)
(* extract_fb2_metadata on its own: called on any payload.                 *)
(***************************************************************************)
InitMetadata ==
    /\ req \in {[r \in AllRequests |->
                    IF r \in Requests
                    THEN [InitRequest EXCEPT !.pc = "metadata_call", !.payload = p]
                    ELSE InitRequest] : p \in Payloads}
    /\ files = {}
    /\ symlinks = {}
    /\ tmp_seq = 0
    /\ retry_count = 0
    /\ jobs = <<>>
    /\ failures = 0

\* metadata = await extract_fb2_metadata(fb2_path)
MetadataCall(r) ==
    /\ req[r].pc = "metadata_call"
    /\ LET result == ExtractFb2Metadata(req[r].payload)
       IN  Set(r, [req[r] EXCEPT !.pc = "metadata_returned",
                                 !.meta_done = result.raised = "",
                                 !.meta_raised = result.raised,
                                 !.metadata = result.metadata])
    /\ UNCHANGED <<files, symlinks, tmp_seq, retry_count, jobs, failures>>

NextMetadata == \E r \in Requests : MetadataCall(r)

SpecMetadata == InitMetadata /\ [][NextMetadata]_vars

(***************************************************************************)
(* Two requests of one user, their steps interleaved at the awaits of      *)
(* handle_document.  Each request is run on few inputs: a document         *)
(* without a name or named b.zip, one lookup of the file path, an archive  *)
(* that cannot be read or one of up to MaxEntries entries named a.fb2, a   *)
(* payload without elements; the temp directory is no symbolic link.       *)
(***************************************************************************)
ConcurrentNames == { <<>>, <<"b", ".", "z", "i", "p">> }

ConcurrentArchives ==
    {a \in Archives : \A i \in 1..Len(a.infolist) : a.infolist[i] \in OtherInfos}

InitConcurrent == Init /\ symlinks = {}

StepConcurrent(r) ==
    \/ HandleDocument(r) /\ req'[r].document.file_name \in ConcurrentNames
    \/ GetFilePath(r) /\ req'[r].attempt = 0
    \/ Download(r)
    \/ ValidateOn(r, ConcurrentArchives)
    \/ SafeExtract(r)
    \/ BadZip(r)
    \/ Checking(r)
    \/ Metadata(r) /\ req'[r].payload.tree = <<>>
    \/ Send(r)
    \/ Success(r)
    \/ Fb2Error(r)
    \/ SecurityErrorHandler(r)
    \/ ArchiveError(r)
    \/ Unexpected(r)
    \/ ErrorHandler(r)

NextConcurrent ==
    \/ \E r \in AllRequests : StepConcurrent(r)
    \/ \E i \in 1..Len(jobs) : RetrySendMessage(i)

SpecConcurrent == InitConcurrent /\ [][NextConcurrent]_vars

(***************************************************************************)
(* safe_extract on its own: called on any archive of at least one entry    *)
(* and any destination root, validated or not.                             *)
(***************************************************************************)
\* destination roots: a directory mkdtemp made, and the directory /a
Roots == {MkdtempPath(1), <<"/", "a">>}

InitSafeExtract ==
    /\ symlinks \in {{}, {[from |-> TempDir, to |-> TempDirTarget]}}
    /\ \E path \in Roots :
          /\ files = {RealPath(path, symlinks)}
          /\ req \in {[r \in AllRequests |->
                          IF r \in Requests
                          THEN [InitRequest EXCEPT !.pc = "extract",
                                                   !.extract_dir = path,
                                                   !.archive = a]
                          ELSE InitRequest] :
                      a \in {x \in Archives : x.ok /\ Len(x.infolist) > 0}}
    /\ tmp_seq = 1
    /\ retry_count = 0
    /\ jobs = <<>>
    /\ failures = 0

NextSafeExtract == \E r \in Requests : SafeExtract(r)

SpecSafeExtract == InitSafeExtract /\ [][NextSafeExtract]_vars

(***************************************************************************)
(* send_reply and retry_send_message for one user: text messages, each     *)
(* answered by handle_text, and the retries they schedule.                 *)
(***************************************************************************)
\* the most failures counted in context.user_data["retry_count"]
MaxRetryCount == 7

\* the most retries waiting on the job queue
MaxJobs == 2

\* handle_text, lines 331-333
HandleText(r) ==
    /\ retry_count < MaxRetryCount
    /\ Len(jobs) < MaxJobs
    /\ \E ok \in BOOLEAN :
          /\ SendReply(r, MSG_TEXT, ok)
          /\ Set(r, [req[r] EXCEPT !.reply = IF ok THEN MSG_TEXT ELSE @])
    /\ UNCHANGED <<files, symlinks, tmp_seq>>

NextRetry ==
    \/ \E r \in Requests : HandleText(r)
    \/ \E i \in 1..Len(jobs) : RetrySendMessage(i)

SpecRetry == Init /\ [][NextRetry]_vars


(***************************************************************************)
(* The vocabulary of the specification, read off the state of the code.    *)
(***************************************************************************)
\* process_archive was called for the request and ZipFile has read its archive
Processed(rec) == rec.extract_dir # <<>>

\* the failure classification of the exception process_archive met
Failure(rec) ==
    CASE rec.error.type = "BadZipFile" -> "MalformedArchive"
      [] rec.error.msg = MSG_COUNT -> "WrongEntryCount"
      [] rec.error.msg = MSG_EXT -> "WrongFileType"
      [] rec.error.msg \in {MSG_SEP, MSG_PATH} -> "UnsafeEntryName"
      [] rec.error.msg = MSG_RATIO -> "SuspiciousCompressionRatio"
      [] rec.error.msg = MSG_SIZE -> "PayloadTooLarge"
      [] rec.error.msg = MSG_SLIP -> "PathEscape"
      [] rec.error.type # "" -> "ProcessingError"
      [] OTHER -> "None"

\* the canonical extraction root of a request
Root(rec) == RealPath(rec.extract_dir, symlinks)

\* the files that exist strictly under the extraction root of a request
UnderRoot(rec) == {f \in files : IsUnder(f, Root(rec)) /\ f # Root(rec)}

\* nothing was extracted for the request
NothingExtracted(rec) ==
    /\ ~rec.extract_called
    /\ rec.written = {}
    /\ rec.extract_dir # <<>> => UnderRoot(rec) = {}

\* the archive of the request was read and has exactly one entry
SingleEntry(rec) == rec.archive.ok /\ Len(rec.archive.infolist) = 1

(***************************************************************************)
(* C1.  An archive whose entry count is not 1 (none, or several, a         *)
(* directory entry counted like any other) fails the validation with       *)
(* WrongEntryCount; safe_extract is never called for it and no file is     *)
(* written under the extraction root.                                      *)
(***************************************************************************)
C1_WrongEntryCount ==
    \A r \in AllRequests :
        LET rec == req[r]
        IN  (rec.archive.ok /\ Len(rec.archive.infolist) # 1)
                => /\ Failure(rec) = "WrongEntryCount"
                   /\ rec.error.type = "SecurityError"
                   /\ ~rec.validated
                   /\ NothingExtracted(rec)

\* an archive of two entries, the first a directory entry, was refused
C1_Witness ==
    \E r \in AllRequests :
        /\ req[r].pc = "done"
        /\ req[r].archive.ok
        /\ Len(req[r].archive.infolist) = 2
        /\ EndsWith(req[r].archive.infolist[1].filename, SLASH)
        /\ req[r].status = MSG_COUNT

(***************************************************************************)
(* C2.  Every file an extraction of the pipeline writes has a canonical    *)
(* path equal to or under the canonical extraction root, also when the     *)
(* root lies behind a symbolic link; no file exists outside the roots and  *)
(* the temporary archive files of the requests.                            *)
(***************************************************************************)
C2_ExtractionInsideRoot ==
    /\ \A r \in AllRequests :
          \A w \in req[r].written : IsUnder(w, Root(req[r]))
    /\ \A r \in AllRequests :
          req[r].pc \in {"checking", "metadata", "send", "success"}
              => /\ req[r].written # {}
                 /\ req[r].written \subseteq UnderRoot(req[r])
    /\ \A f \in files :
          \E r \in AllRequests :
              \/ req[r].tmp_path # <<>> /\ f = RealPath(req[r].tmp_path, symlinks)
              \/ req[r].extract_dir # <<>> /\ IsUnder(f, Root(req[r]))

\* an extraction succeeded into a root that lies behind a symbolic link
C2_Witness ==
    \E r \in AllRequests :
        /\ symlinks # {}
        /\ req[r].pc = "checking"
        /\ req[r].written # {}
        /\ Root(req[r]) # req[r].extract_dir

(***************************************************************************)
(* C3.  As claimed: the single entry of an archive has a name that         *)
(* contains '../', starts with '/' or contains a backslash; then the       *)
(* validation fails with UnsafeEntryName and nothing is extracted,         *)
(* whatever the rest of the name is.                                       *)
(***************************************************************************)
DOTDOTSLASH == <<".", ".", "/">>

TraversalName(name) ==
    \/ Contains(name, DOTDOTSLASH)
    \/ StartsWith(name, SLASH)
    \/ Contains(name, BACKSLASH)

PassedNameChecks(infolist) ==
    /\ ~WrongFileType(infolist)
    /\ ~HasSeparator(infolist)
    /\ ~UnsafePath(infolist)

\* a / b > MAX_ZIP_RATIO over the rationals, for b > 0
RatioExceeded(e) ==
    /\ e.compress_size > 0
    /\ e.file_size > MAX_ZIP_RATIO * e.compress_size

\* C4: such an entry fails with SuspiciousCompressionRatio, nothing extracted
C4_SuspiciousRatio ==
    \A r \in AllRequests :
        LET rec == req[r]
            infolist == rec.archive.infolist
        IN  (SingleEntry(rec) /\ PassedNameChecks(infolist) /\ RatioExceeded(infolist[1]))
                => /\ Failure(rec) = "SuspiciousCompressionRatio"
                   /\ ~rec.validated
                   /\ NothingExtracted(rec)

\* a small entry (below the size limit) was refused for its ratio
C4_Witness ==
    \E r \in AllRequests :
        /\ req[r].pc = "done"
        /\ SingleEntry(req[r])
        /\ req[r].archive.infolist[1].file_size = 201
        /\ req[r].archive.infolist[1].compress_size = 2
        /\ req[r].status = MSG_RATIO


(***************************************************************************)
(* C5.  As claimed: when the entry inflates to more than its declared      *)
(* size plus the slack, the extraction aborts and the request fails with   *)
(* DecompressionMismatch, a failure that is neither MalformedArchive (the  *)
(* BadZipFile of line 217) nor the generic processing error, and the       *)
(* payload is not delivered.                                               *)
(***************************************************************************)
SizeSpoofed(rec) ==
    /\ rec.extract_called
    /\ rec.written # {}
    /\ rec.actual > rec.archive.infolist[1].file_size + SlackBytes

\* C5 as claimed: a spoofed size ends the request with DecompressionMismatch
C5_DecompressionMismatch ==
    \A r \in AllRequests :
        LET rec == req[r]
        IN  (SizeSpoofed(rec) /\ rec.pc = "done")
                => /\ rec.error.type = "DecompressionMismatch"
                   /\ Failure(rec) \notin {"MalformedArchive", "ProcessingError", "None"}
                   /\ rec.sent = 0
                   /\ ~rec.completed

(***************************************************************************)
(* C6.  The checks run in the order parse, entry count, extension, name    *)
(* safety, compression ratio, size, and stop at the first violation: the   *)
(* failure reported is that of the earliest check the archive violates,    *)
(* no later check runs and nothing is extracted; an archive that violates  *)
(* none is validated.                                                      *)
(***************************************************************************)
\* the classifications in the order of section 4.1, after the parse
ClaimedOrder ==
    << "WrongEntryCount", "WrongFileType", "UnsafeEntryName",
       "SuspiciousCompressionRatio", "PayloadTooLarge" >>

\* the archive (its directory read) violates the i-th check of ClaimedOrder
ViolatesClaimed(i, infolist) ==
    CASE i = 1 -> Len(infolist) # 1
      [] i = 2 -> Len(infolist) >= 1 /\ WrongFileType(infolist)
      [] i = 3 -> Len(infolist) >= 1 /\ (HasSeparator(infolist) \/ UnsafePath(infolist))
      [] i = 4 -> Len(infolist) >= 1 /\ SuspiciousRatio(infolist)
      [] i = 5 -> Len(infolist) >= 1 /\ TooLarge(infolist)

\* how many checks of the code have run when its i-th claimed check fails
ChecksRunAt(i, rec) ==
    CASE i \in {1, 2} -> i
      [] i = 3 -> IF rec.error.msg = MSG_SEP THEN 3 ELSE 4
      [] i \in {4, 5} -> i + 1

\* C6: the failure is that of the earliest violated check, and none runs after it
C6_CheckOrder ==
    \A r \in AllRequests :
        LET rec == req[r]
            infolist == rec.archive.infolist
            violated == {i \in 1..Len(ClaimedOrder) : ViolatesClaimed(i, infolist)}
        IN  Processed(rec)
                => IF ~rec.archive.ok
                   THEN /\ Failure(rec) = "MalformedArchive"
                        /\ rec.checks = 0
                        /\ ~rec.validated
                        /\ NothingExtracted(rec)
                   ELSE IF violated = {}
                   THEN /\ rec.validated
                        /\ rec.checks = Len(CheckOrder)
                   ELSE LET first == CHOOSE i \in violated : \A j \in violated : i <= j
                        IN  /\ Failure(rec) = ClaimedOrder[first]
                            /\ rec.checks = ChecksRunAt(first, rec)
                            /\ ~rec.validated
                            /\ NothingExtracted(rec)

\* an archive that violates the extension, name, ratio and size checks at
\* once was refused for its extension
C6_Witness ==
    \E r \in AllRequests :
        LET infolist == req[r].archive.infolist
        IN  /\ req[r].pc = "done"
            /\ SingleEntry(req[r])
            /\ WrongFileType(infolist)
            /\ HasSeparator(infolist)
            /\ SuspiciousRatio(infolist)
            /\ TooLarge(infolist)
            /\ req[r].status = MSG_EXT
            /\ req[r].checks = 2


(***************************************************************************)
(* C7.  A request moves through Received, Validated, Extracted,            *)
(* MetadataResolved, Completed in this order, or from any of them to       *)
(* Failed, and revisits none: the extraction starts only after the         *)
(* validation passed, the metadata is read only after the extraction       *)
(* succeeded and reading it always yields a value, Completed (document     *)
(* sent, success status shown) comes only after MetadataResolved and at    *)
(* most once, and after Failed no later stage runs.                        *)
(***************************************************************************)
\* the state of section 4.4 a request is in
Stage(rec) ==
    CASE rec.pc = "idle" -> "None"
      [] rec.pc \in {"get_file_path", "file_url", "process"} -> "Received"
      [] rec.pc = "extract" -> "Validated"
      [] rec.pc \in {"checking", "metadata"} -> "Extracted"
      [] rec.pc \in {"send", "success"} -> "MetadataResolved"
      [] rec.pc = "done" /\ rec.completed -> "Completed"
      [] OTHER -> "Failed"

StageOrder == <<"None", "Received", "Validated", "Extracted", "MetadataResolved", "Completed">>

\* the transitions of section 4.4
StageSteps ==
    {<<StageOrder[i], StageOrder[i + 1]>> : i \in 1..(Len(StageOrder) - 1)}
    \cup {<<StageOrder[i], "Failed">> : i \in 1..(Len(StageOrder) - 1)}

\* what the stages have produced
Progress(rec) ==
    <<rec.validated, rec.extract_called, rec.written, rec.meta_done, rec.metadata,
      rec.sent, rec.completed>>

StageInvariant(rec) ==
    /\ Stage(rec) \in {"Validated", "Extracted", "MetadataResolved", "Completed"}
          => rec.archive.ok /\ rec.validated
    /\ Stage(rec) \in {"Extracted", "MetadataResolved", "Completed"}
          => rec.extract_called /\ rec.written # {}
    /\ Stage(rec) \in {"MetadataResolved", "Completed"} => rec.meta_done
    /\ Stage(rec) = "Completed" => rec.sent = 1 /\ rec.status = MSG_SUCCESS
    /\ rec.extract_called => rec.validated
    /\ rec.meta_done => rec.extract_called /\ rec.error = NoError
    /\ rec.sent > 0 => rec.meta_done
    /\ rec.sent <= 1

StageStep(old, new) ==
    /\ Stage(new) # Stage(old) => <<Stage(old), Stage(new)>> \in StageSteps
    /\ Stage(old) \in {"Failed", "Completed"} => Progress(new) = Progress(old)
    /\ (old.pc = "metadata" /\ new.pc # "metadata") => Stage(new) = "MetadataResolved"

\* C7: the stages follow section 4.4 in every state and at every step
C7_StageOrder ==
    /\ [](\A r \in AllRequests : StageInvariant(req[r]))
    /\ [][\A r \in AllRequests : StageStep(req[r], req'[r])]_vars

\* a request went through every stage
C7_Witness ==
    \E r \in AllRequests :
        /\ Stage(req[r]) = "Completed"
        /\ req[r].sent = 1
        /\ req[r].meta_done

(***************************************************************************)
(* C8.  As claimed: when handle_document has returned (or an exception     *)
(* has left it), the temporary archive file and the temporary extraction   *)
(* directory of the request, with what is in it, are removed.              *)
(***************************************************************************)
C8_CleanupOnEveryExit ==
    \A r \in AllRequests :
        LET rec == req[r]
        IN  rec.pc \in {"done", "error_handler"}
                => /\ rec.tmp_path # <<>> => RealPath(rec.tmp_path, symlinks) \notin files
                   /\ rec.extract_dir # <<>> =>
                          {f \in files : IsUnder(f, Root(rec))} = {}

(***************************************************************************)
(* C9.  extract_fb2_metadata never lets an exception reach its caller,     *)
(* whatever the payload (empty, no XML, malformed, unreadable, too         *)
(* large): every internal error gives the metadata with both fields        *)
(* absent, and the request goes on to send the document.                   *)
(***************************************************************************)
\* the payload makes extract_fb2_metadata fail or give up inside
Degraded(p) ==
    \/ ~p.readable
    \/ p.size > ALLOWED_FILE_SIZE
    \/ p.parse \in {"error", "noroot"}

\* C9: no exception leaves extract_fb2_metadata; its errors give empty metadata
C9_MetadataNeverRaises ==
    \A r \in AllRequests :
        LET rec == req[r]
        IN  /\ rec.meta_raised = ""
            \* whatever the file holds when line 229 is about to read it
            /\ rec.pc = "metadata"
                  => \A p \in Payloads :
                        /\ ExtractFb2Metadata(p).raised = ""
                        /\ Degraded(p) => ExtractFb2Metadata(p).metadata = NoMetadata
            /\ rec.pc = "send"
                  => /\ rec.meta_done
                     /\ Degraded(rec.payload) => rec.metadata = NoMetadata
            /\ rec.pc = "fb2_error" => rec.meta_done

\* a payload that is no XML gave empty metadata, and the document was
\* then delivered and the request completed
C9_Witness ==
    \E r \in AllRequests :
        /\ req[r].pc = "done"
        /\ req[r].payload.parse = "error"
        /\ req[r].payload.readable
        /\ req[r].metadata = NoMetadata
        /\ req[r].completed

(***************************************************************************)
(* C10.  As claimed: the validation accepts an archive exactly when it     *)
(* parses, has one entry, the name ends (case-insensitively) with '.fb2',  *)
(* has no slash or backslash, no leading root marker, no parent-directory  *)
(* segment and is its own normalised base name, the compressed size is 0   *)
(* or the ratio is at most 100, and the declared size is at most 32 MiB.   *)
(***************************************************************************)
\* the segments of a name: what its slashes and backslashes separate
Segments(name) ==
    LET parts == Split(name, "/")
    IN  UNION {{Split(parts[i], "\\")[j] : j \in 1..Len(Split(parts[i], "\\"))} :
                   i \in 1..Len(parts)}

ClaimAccepts(archive) ==
    /\ archive.ok
    /\ Len(archive.infolist) = 1
    /\ LET e == archive.infolist[1]
           name == e.filename
       IN  /\ EndsWith(Lower(name), FB2)
           /\ ~Contains(name, SLASH)
           /\ ~Contains(name, BACKSLASH)
           /\ ~StartsWith(name, SLASH)
           /\ DOTDOT \notin Segments(name)
           /\ name = BaseName(NormPath(name))
           /\ (e.compress_size = 0 \/ e.file_size <= MAX_ZIP_RATIO * e.compress_size)
           /\ e.file_size <= ALLOWED_FILE_SIZE

\* C10 as claimed: validated exactly when the claimed conditions hold
C10_AcceptIff ==
    \A r \in AllRequests :
        Processed(req[r]) => (req[r].validated <=> ClaimAccepts(req[r].archive))

(***************************************************************************)
(* C11.  A document whose reported size exceeds 32 MB, or whose name does  *)
(* not end (case-insensitively) with '.zip', is rejected at the gates:     *)
(* the handler returns with nothing but the reply attempted, no file-path  *)
(* lookup or download started and no temporary file or directory made.  A  *)
(* document of exactly 32 MB named *.zip passes the gates: the next call   *)
(* is the one that shows the status message.                               *)
(***************************************************************************)
GateTexts == {MSG_TOO_BIG, MSG_NOT_ZIP}

\* the document is one the claim says the gates reject
ClaimRejects(document) ==
    LET name == document.file_name
        n == Len(name)
    IN  \/ document.file_size > 32 * 1024 * 1024
        \/ n < 4
        \/ Lower(SubSeq(name, n - 3, n)) # <<".", "z", "i", "p">>

\* the request has done nothing but take its document and attempt a reply
OnlyReplied(rec) ==
    [rec EXCEPT !.pc = "idle", !.document = InitRequest.document, !.reply = ""]
        = InitRequest

\* a reply of the gates was delivered to, or is scheduled for, the request
GateReply(r) ==
    \/ req[r].reply \in GateTexts
    \/ \E i \in 1..Len(jobs) : jobs[i].chat = r /\ jobs[i].text \in GateTexts

\* C11: rejected documents stop at the gates, and 32 MB *.zip passes them
C11_Gates ==
    \A r \in Requests :
        LET rec == req[r]
        IN  rec.pc # "idle"
                => IF ClaimRejects(rec.document)
                   THEN /\ rec.pc = "done"
                        /\ OnlyReplied(rec)
                        /\ rec.reply \in GateTexts \cup {""}
                        /\ tmp_seq = 0
                        /\ files = {}
                   ELSE /\ ~GateReply(r)
                        /\ \/ rec.status # ""
                           \/ rec.pc \in {"error_handler", "done"} /\ rec.escaped

\* a document of 32 MB + 1 named b.zip was rejected, its reply failed and a
\* retry is scheduled
C11_Witness ==
    \E r \in Requests :
        /\ req[r].pc = "done"
        /\ req[r].document.file_size = ALLOWED_FILE_SIZE + 1
        /\ EndsWith(req[r].document.file_name, ZIP)
        /\ Len(jobs) = 1
        /\ jobs[1].text = MSG_TOO_BIG

(***************************************************************************)
(* C12.  For a document that parses, the author is composed from the       *)
(* first-name and last-name of the first author element in document        *)
(* order: both give '<first> <last>', only a last name gives it, only a    *)
(* first name gives it, neither (or no author element) gives no author.    *)
(* The title, when present, is the text of the first book-title element    *)
(* cut to at most 255 characters.                                          *)
(***************************************************************************)
\* the positions of the elements of a tag
Positions(tree, tag) == {i \in 1..Len(tree) : tree[i].tag = tag}

\* the least position in a non-empty set
Least(ps) == CHOOSE i \in ps : \A j \in ps : i <= j

ClaimedAuthor(tree) ==
    IF Positions(tree, "author") = {} THEN <<>>
    ELSE LET e == tree[Least(Positions(tree, "author"))]
         IN  CASE e.first # <<>> /\ e.last # <<>> -> e.first \o <<" ">> \o e.last
               [] e.first = <<>> /\ e.last # <<>> -> e.last
               [] e.first # <<>> /\ e.last = <<>> -> e.first
               [] OTHER -> <<>>

ClaimedTitle(tree) ==
    IF Positions(tree, "book-title") = {} THEN <<>>
    ELSE LET text == tree[Least(Positions(tree, "book-title"))].text
         IN  [i \in 1..Min(Len(text), 255) |-> text[i]]

\* the payload is a document extract_fb2_metadata reads and parses
ParsedPayload(p) == p.readable /\ p.size <= ALLOWED_FILE_SIZE /\ p.parse = "tree"

\* C12: the metadata returned for a parsed document is the claimed one
C12_AuthorAndTitle ==
    \A r \in Requests :
        LET rec == req[r]
        IN  (rec.pc = "metadata_returned" /\ ParsedPayload(rec.payload))
                => /\ rec.meta_raised = ""
                   /\ rec.metadata.author = ClaimedAuthor(rec.payload.tree)
                   /\ rec.metadata.title = ClaimedTitle(rec.payload.tree)
                   /\ Len(rec.metadata.title) <= 255

\* a document of a title of 256 characters followed by an author with both
\* names was read
C12_Witness ==
    \E r \in Requests :
        LET rec == req[r]
            tree == rec.payload.tree
        IN  /\ rec.pc = "metadata_returned"
            /\ ParsedPayload(rec.payload)
            /\ Len(tree) = 2
            /\ tree[1].tag = "book-title" /\ Len(tree[1].text) = 256
            /\ tree[2].tag = "author" /\ tree[2].first # <<>> /\ tree[2].last # <<>>
            /\ Len(rec.metadata.title) = 255
            /\ rec.metadata.author = <<"F", " ", "L">>

(***************************************************************************)
(* C13.  As claimed: a request that failed with one of the                 *)
(* classifications ends with a status message that belongs to its          *)
(* classification: not the message of another classification, not a        *)
(* generic error message and not the success message.                      *)
(***************************************************************************)
Classifications ==
    {"MalformedArchive", "WrongEntryCount", "WrongFileType", "UnsafeEntryName",
     "SuspiciousCompressionRatio", "PayloadTooLarge", "PathEscape",
     "DecompressionMismatch"}

\* the classification of the failure of a request: an entry that inflates
\* past its declared size is a DecompressionMismatch
Classification(rec) ==
    IF SizeSpoofed(rec) THEN "DecompressionMismatch" ELSE Failure(rec)

\* the status messages the code has for a classification
MessagesFor(c) ==
    CASE c = "MalformedArchive" -> {MSG_BADZIP}
      [] c = "WrongEntryCount" -> {MSG_COUNT}
      [] c = "WrongFileType" -> {MSG_EXT}
      [] c = "UnsafeEntryName" -> {MSG_SEP, MSG_PATH}
      [] c = "SuspiciousCompressionRatio" -> {MSG_RATIO}
      [] c = "PayloadTooLarge" -> {MSG_SIZE}
      [] c = "PathEscape" -> {MSG_SLIP}
      [] OTHER -> {}

GenericMessages == {MSG_ARCHIVE, MSG_UNEXPECTED, MSG_FB2}

\* C13 as claimed: the final status is that of the classification alone
C13_MessagePerClassification ==
    \A r \in AllRequests :
        LET rec == req[r]
        IN  (rec.pc = "done" /\ Classification(rec) \in Classifications)
                => /\ rec.status \notin GenericMessages
                   /\ rec.status # MSG_SUCCESS
                   /\ \A c \in Classifications \ {Classification(rec)} :
                         rec.status \notin MessagesFor(c)

(***************************************************************************)
(* C14.  Two requests of one user whose steps interleave: each has its own *)
(* temp archive file and its own extraction root, and no step of one       *)
(* changes the local state of the other or creates, overwrites or deletes  *)
(* a file of the other.  What they do share is the user's retry counter    *)
(* (context.user_data["retry_count"]) and the job queue of send_reply.     *)
(***************************************************************************)
\* the file is of the request: its temp archive file, its extraction root
\* or something under it
Owns(rec, f) ==
    \/ rec.tmp_path # <<>> /\ f = RealPath(rec.tmp_path, symlinks)
    \/ rec.extract_dir # <<>> /\ IsUnder(f, Root(rec))

OwnFiles(r) == {f \in files : Owns(req[r], f)}

\* the paths of two requests never meet
DistinctPaths(r, o) ==
    LET a == req[r]
        b == req[o]
    IN  /\ (a.tmp_path # <<>> /\ b.tmp_path # <<>>) => a.tmp_path # b.tmp_path
        /\ (a.extract_dir # <<>> /\ b.extract_dir # <<>>)
              => /\ a.extract_dir # b.extract_dir
                 /\ ~IsUnder(Root(a), Root(b))
        /\ (a.tmp_path # <<>> /\ b.extract_dir # <<>>)
              => ~IsUnder(RealPath(a.tmp_path, symlinks), Root(b))
        /\ \A w \in a.written : ~Owns(b, w)
        /\ \A f \in files : ~(Owns(a, f) /\ Owns(b, f))

\* the files a step creates or deletes
Touched == (files' \ files) \cup (files \ files')

\* a step of request r leaves request o and its files as they are
LeavesAlone(r, o) ==
    req'[r] # req[r]
        => /\ req'[o] = req[o]
           /\ \A f \in Touched : ~Owns(req[o], f)

\* C14 (amended): own files and roots, and no step touches the other request
C14_RequestIsolation ==
    /\ [](\A r \in AllRequests : \A o \in AllRequests \ {r} : DistinctPaths(r, o))
    /\ [][\A r \in AllRequests : \A o \in AllRequests \ {r} : LeavesAlone(r, o)]_vars

\* the gates of the request, with the send_reply that reads the retry
\* counter, are still ahead
UsesRetryCount(rec) == rec.pc = "idle"

\* C14 as claimed: nor does a step of one request change the retry counter
\* another request is about to use
C14_Original ==
    /\ [](\A r \in AllRequests : \A o \in AllRequests \ {r} : DistinctPaths(r, o))
    /\ [][\A r \in AllRequests : \A o \in AllRequests \ {r} :
              /\ LeavesAlone(r, o)
              /\ (req'[r] # req[r] /\ UsesRetryCount(req[o]))
                    => retry_count' = retry_count]_vars

\* both requests have extracted their archive, each into its own root
C14_Witness ==
    /\ \A r \in AllRequests : req[r].pc = "checking" /\ req[r].written # {}
    /\ \E r \in AllRequests : \E o \in AllRequests \ {r} :
          /\ req[r].tmp_path # req[o].tmp_path
          /\ req[r].extract_dir # req[o].extract_dir
          /\ OwnFiles(r) # {} /\ OwnFiles(o) # {}

(***************************************************************************)
(* C15.  As claimed: safe_extract on its own, whatever the member names    *)
(* and the root, raises the 'Potential Zip Slip attack detected' error     *)
(* and writes nothing whenever the canonical path of some member is        *)
(* neither the canonical root nor under it, a sibling directory whose      *)
(* path begins with the root's path included.                              *)
(***************************************************************************)
\* the canonical path of the member is neither the root nor under it
OutsideRoot(rec, member) ==
    ~IsUnder(RealPath(JoinPath(rec.extract_dir, member.filename), symlinks), Root(rec))

SomeMemberOutside(rec) ==
    \E i \in 1..Len(rec.archive.infolist) : OutsideRoot(rec, rec.archive.infolist[i])

\* C15 as claimed: a member outside the root makes safe_extract raise PathEscape
C15_PathEscape ==
    \A r \in Requests :
        LET rec == req[r]
        IN  (rec.extract_called /\ SomeMemberOutside(rec))
                => /\ rec.error = [type |-> "SecurityError", msg |-> MSG_SLIP]
                   /\ rec.written = {}
                   /\ files = {Root(rec)}

(***************************************************************************)
(* C16.  As claimed: when the handler of a request that showed its status  *)
(* message has returned, the status is the success message exactly when    *)
(* the extracted document was delivered, whichever of the Telegram calls   *)
(* failed on the way.                                                      *)
(***************************************************************************)
\* handle_document has returned, or an exception has left it
Returned(rec) == rec.pc = "done" \/ (rec.pc = "error_handler" /\ rec.escaped)

\* C16 as claimed: success is shown exactly when the document was sent
C16_SuccessIffSent ==
    \A r \in AllRequests :
        LET rec == req[r]
        IN  (Returned(rec) /\ rec.status # "")
                => (rec.status = MSG_SUCCESS <=> rec.sent > 0)

(***************************************************************************)
(* C17.  get_file_path makes at most MAX_RETRY_ATTEMPTS (3) requests.      *)
(* While it runs, every request so far failed in transport and the i-th    *)
(* failure was followed by a sleep of 2^(i-1) seconds.  It returns the     *)
(* URL at the first successful answer, None at once on an answer with      *)
(* ok = false, and None after the third transport failure, with no sleep   *)
(* after it.                                                               *)
(***************************************************************************)
\* the sleep that follows the i-th failed request
ClaimedSleep(i) == CASE i = 1 -> 1 [] i = 2 -> 2 [] OTHER -> 4

\* the first n requests failed in transport, each followed by its sleep
RetriedTimes(rec, n) ==
    /\ \A i \in 1..n : rec.requests[i] = "transport"
    /\ rec.slept = [i \in 1..n |-> ClaimedSleep(i)]

\* C17: the requests, sleeps and result of get_file_path
C17_GetFilePath ==
    \A r \in AllRequests :
        LET rec == req[r]
            n == Len(rec.requests)
        IN  /\ n <= 3
            /\ Len(rec.slept) <= 2
            /\ rec.pc = "get_file_path" => n < 3 /\ RetriedTimes(rec, n)
            /\ rec.pc = "file_url"
                  => /\ n >= 1
                     /\ RetriedTimes(rec, n - 1)
                     /\ rec.requests[n] \in {"url", "not_ok", "transport"}
                     /\ rec.file_url <=> rec.requests[n] = "url"
                     /\ rec.requests[n] = "transport" => n = 3
            /\ (rec.pc = "unexpected" /\ n > 0)
                  => RetriedTimes(rec, n - 1) /\ rec.requests[n] = "other"

\* three transport failures: sleeps of 1 and 2 seconds, then None
C17_Witness ==
    \E r \in AllRequests :
        /\ req[r].pc = "file_url"
        /\ req[r].requests = <<"transport", "transport", "transport">>
        /\ req[r].slept = <<1, 2>>
        /\ ~req[r].file_url

(***************************************************************************)
(* C18.  As claimed: a send_reply that fails schedules exactly one retry,  *)
(* after min(30, 5k + 1) seconds, k being the send_reply failures since    *)
(* the last retry_send_message that succeeded; no delay exceeds 30; a      *)
(* retry that runs, failing or not, schedules nothing.                     *)
(***************************************************************************)
ClaimedDelay(k) == IF 5 * k + 1 > 30 THEN 30 ELSE 5 * k + 1

\* a step that counts a failure schedules one retry with the claimed delay
FailureSchedules ==
    failures' = failures + 1
        => /\ Len(jobs') = Len(jobs) + 1
           /\ SubSeq(jobs', 1, Len(jobs)) = jobs
           /\ jobs'[Len(jobs')].delay = ClaimedDelay(failures)

\* any other step schedules nothing
NothingElseSchedules == failures' # failures + 1 => Len(jobs') <= Len(jobs)

\* C18 as claimed: the delays follow the failures since the last success
C18_RetryDelay ==
    /\ [](\A i \in 1..Len(jobs) : jobs[i].delay <= 30)
    /\ [][FailureSchedules /\ NothingElseSchedules]_vars

=============================================================================
